---- MODULE Spec2Model ----
(***************************************************************************)
(* RadaeDecoder (src/src/rade_decoder.cpp, rade_decoder.h): the control    *)
(* thread's operations (open, open_file, close, start, stop, the           *)
(* destructor, start_recording, stop_recording, set_input_gain,            *)
(* get_spectrum) interleaved with the worker thread running                *)
(* processing_loop. WasapiCapture (src/src/audio_wasapi.cpp): open, close  *)
(* and read, with the resampler that read hands each captured packet to.   *)
(*                                                                         *)
(* Samples are represented by their position in the source stream (file    *)
(* index, or position in the capture stream of the current run) and their  *)
(* amplitude; feature frames by their decode order in the current run. The *)
(* modem (librade) and the vocoder (FARGAN) are external engines: the      *)
(* modem's sync state, required input count and number of returned frames  *)
(* are chosen nondeterministically at every rade_rx call. std::terminate   *)
(* ends the process: no thread takes a step after it.                      *)
(*                                                                         *)
(* Specifications. Spec: the lifecycle operations over a silent source     *)
(* (every sample 0, the modem's estimates 0), the loop body between the    *)
(* cancellation check and rade_rx taken as one step. SpecRecording, SpecIO *)
(* and SpecFair add the recording operations, failing playback writes and  *)
(* the worker's fairness. SpecTelemetry and SpecPipe run over a source     *)
(* that carries signal; SpecPipe takes the loop body lock by lock, next to *)
(* get_spectrum, set_input_gain and the recording operations. SpecLocks is *)
(* the same lock by lock loop over a silent capture stream with both       *)
(* threads scheduled; SpecGain follows the gain stage next to              *)
(* set_input_gain. SpecStop is a live session with the worker and stop()   *)
(* scheduled; SpecPrime follows a run long enough for two primings of the  *)
(* vocoder; SpecFileRun follows runs over a preloaded file. SpecHilbert    *)
(* follows the rings of hilbert_process sample by sample, with a short     *)
(* filter; the other specifications leave the rings at their reset value.  *)
(* SpecWasapi follows WasapiCapture::read packet by packet, device frames  *)
(* told by their number since open.                                        *)
(***************************************************************************)
EXTENDS Integers, Sequences, FiniteSets, TLC

\* ---- bounds of the model ------------------------------------------------
\* samples per capture read (READ_FRAMES in the source, scaled down)
READ_FRAMES == 2
\* largest required input count the modem may ask for (rade_nin_max, scaled)
NinMax == 2
\* largest number of feature frames one rade_rx call returns
MaxFramesPerRx == 2
\* largest preloaded file, in samples
MaxFileLen == 2
\* loop iterations modelled per worker run
MaxIter == 2
\* loop iterations modelled per worker run where a run is followed through two
\* primings of the vocoder
MaxIterLong == 6
\* feature frames modelled between two entries into Unprimed
MaxSince == 7
\* successive decays of the output level that are told apart
MaxDecay == 2
\* samples fed to the analytic signal generator after a reset, and samples
\* per hilbert_process call
MaxStream == 6
MaxCall == 3
\* frames asked of one WasapiCapture::read, device frames in one captured
\* packet, and device frames captured after an open
MaxRead == 2
MaxPacket == 4
MaxCaptured == 6

\* ---- program constants --------------------------------------------------
\* number of warm-up frames buffered before fargan_cont
WARMUP_FRAMES == 5
\* samples in the analysis window, and bins in the snapshot (scaled down)
FFT_SIZE == 2
SPECTRUM_BINS == 2
\* taps of the Hilbert FIR and its group delay (scaled down from 127 and 63)
HILBERT_NTAPS == 5
HILBERT_DELAY == 2
\* sizeof(int16_t)
INT16_BYTES == 2
\* the amplitude that stands for the float 1.0
AMP_ONE == 4
\* the value of a snapshot bin for a window of zeros (-200.0f)
FLOOR_DB == -200

VARIABLES
    \* RadaeDecoder members
    pa_in_, pa_out_, rade_, fargan_,   \* collaborators held (non-null)
    file_mode_, file_audio_8k_, file_pos_,
    running_, thread_,                 \* thread_ = thread_.joinable()
    synced_,
    fargan_ready_, warmup_count_,
    recording_, rec_file_,
    snr_dB_, freq_offset_, input_level_, output_level_, input_gain_,
    spectrum_mag_,
    spectrum_mutex_, rec_mutex_,       \* "free", or the thread that holds it
    \* external engines
    m_sync, m_nin,                     \* modem session: rade_sync, rade_nin
    fargan_st,                         \* FARGANState: "init" or "primed"
    loud,                              \* the source carries signal
    \* worker thread (processing_loop locals and position)
    wpc, nin, acc_8k, rx_buf, was_synced, output_primed, n_frames, fi,
    acc_amp,                           \* amplitudes of the samples in acc_8k
    rms_n,                             \* frames synthesized in this iteration
    tmp,                               \* the snapshot computed, line 547
    pub_i,                             \* bins copied by the memcpy, line 556
    \* process
    workers,                           \* worker threads alive
    terminated,                        \* std::terminate was called
    \* control thread
    ctl, op,
    out, gs_n, gs_i,                   \* get_spectrum: out, n, bins copied
    \* history
    ret,                               \* last operation that returned
    openOk,                            \* last open succeeded, not closed since
    delivered,                         \* samples the source delivered, this run
    run_base,                          \* source position at start of the run
    handed,                            \* samples handed to hilbert_process, this run
    iter,                              \* loop iterations begun, this run
    fdec,                              \* feature frames decoded, this run
    sink,                              \* writes to the playback sink, this run
    framesSince, contSince, synthSince,\* since the vocoder entered Unprimed
    lossSincePrime,                    \* modem lost sync after the last fargan_cont
    rec_data,                          \* samples written to the recording file, this run
    rec_bytes,                         \* bytes written to the recording file, this run
    rec_handed,                        \* samples handed on by the iterations that wrote them
    teed,                              \* this iteration wrote its samples to the file
    wr_failed,                         \* a playback write failed, this run
    \* analytic signal generator (followed in SpecHilbert)
    hilbert_hist_, hilbert_pos_,       \* FIR history ring and its write position
    delay_buf_, delay_pos_,            \* delay ring and its write position
    h_in, h_out,                       \* samples fed and outputs produced since the reset
    h_calls,                           \* hilbert_process calls since the reset
    \* WasapiCapture (audio_wasapi.cpp, followed in SpecWasapi)
    capture_,                          \* client_ and capture_ held (non-null)
    resample_buf_, resample_pos_,
    rpc,                               \* position of the caller in read()
    r_frames, r_filled, r_buffer,      \* read(): frames, filled, buffer[0..filled)
    r_ret,                             \* what the last read() returned
    captured,                          \* device frames released since open()
    dropped                            \* resampled samples of audio packets
                                       \* neither delivered nor kept

progVars == <<pa_in_, pa_out_, rade_, fargan_, file_mode_, file_audio_8k_,
              file_pos_, running_, thread_, synced_, fargan_ready_,
              warmup_count_, recording_, rec_file_>>
teleVars == <<snr_dB_, freq_offset_, input_level_, output_level_, input_gain_>>
lockVars == <<spectrum_mag_, spectrum_mutex_, rec_mutex_>>
engineVars == <<m_sync, m_nin, fargan_st>>
envVars == <<loud>>
hilbertVars == <<hilbert_hist_, hilbert_pos_, delay_buf_, delay_pos_,
                 h_in, h_out, h_calls>>
\* what the lifecycle and the loop's steps outside hilbert_process leave alone
wasapiVars == <<capture_, resample_buf_, resample_pos_, rpc, r_frames,
                r_filled, r_buffer, r_ret, captured, dropped>>
apartVars == <<envVars, hilbertVars, wasapiVars>>
workerVars == <<wpc, nin, acc_8k, rx_buf, was_synced, output_primed, n_frames, fi>>
pipeVars == <<acc_amp, rms_n, tmp, pub_i>>
procVars == <<workers, terminated>>
ctlVars == <<ctl, op, ret>>
readVars == <<out, gs_n, gs_i>>
histVars == <<openOk, delivered, run_base, handed, iter, fdec, sink,
              framesSince, contSince, synthSince, lossSincePrime>>
recHist == <<rec_data, rec_bytes, rec_handed, teed>>
vars == <<progVars, teleVars, lockVars, engineVars, apartVars, workerVars,
          pipeVars, procVars, ctlVars, readVars, histVars, recHist, wr_failed>>

Min(a, b) == IF a < b THEN a ELSE b
Range(a, b) == [i \in 1..(b - a) |-> a + i]          \* <<a+1, ..., b>>
Fill(n, v) == [i \in 1..n |-> v]
RECURSIVE SumSeq(_)
SumSeq(s) == IF s = <<>> THEN 0 ELSE s[1] + SumSeq(Tail(s))
LifecycleOps == {"open", "open_file", "close", "start", "stop", "destroy"}
RecordingOps == {"start_recording", "stop_recording"}
\* the gains the control thread sets: unity (the default, rade_decoder.h line 101)
\* and a gain that is not unity
UNITY_GAIN == 1
GainValues == {UNITY_GAIN, 2}
\* the telemetry defaults
LevelZero == [rms |-> 0, decays |-> 0]
ZeroSpectrum == Fill(SPECTRUM_BINS, 0)
\* hilbert_hist_ and delay_buf_ after their initializer or memset
\* (rade_decoder.h 76 and 86, rade_decoder.cpp 279-282)
FreshRing_stale == [i \in 0..(HILBERT_NTAPS - 1) |-> 1]
FreshRing == [i \in 0..(HILBERT_NTAPS - 1) |-> 0]
\* the sample values fed to the generator
HilbertAmps == {-1, 0, 1}

\* the state after construction (rade_decoder.h, the member initializers),
\* over a source that carries signal (l) or is silent
Constructed(l) ==
    /\ pa_in_ = FALSE /\ pa_out_ = FALSE /\ rade_ = FALSE /\ fargan_ = FALSE
    /\ file_mode_ = FALSE /\ file_audio_8k_ = <<>> /\ file_pos_ = 0
    /\ running_ = FALSE /\ thread_ = FALSE
    /\ synced_ = FALSE
    /\ fargan_ready_ = FALSE /\ warmup_count_ = 0
    /\ recording_ = FALSE /\ rec_file_ = FALSE
    /\ snr_dB_ = 0 /\ freq_offset_ = 0 /\ input_level_ = 0
    /\ output_level_ = LevelZero /\ input_gain_ = UNITY_GAIN
    /\ spectrum_mag_ = ZeroSpectrum
    /\ spectrum_mutex_ = "free" /\ rec_mutex_ = "free"
    /\ m_sync = FALSE /\ m_nin = 1 /\ fargan_st = "init"
    /\ loud = l
    /\ wpc = "none" /\ nin = 0 /\ acc_8k = <<>> /\ rx_buf = <<>>
    /\ was_synced = FALSE /\ output_primed = FALSE /\ n_frames = 0 /\ fi = 0
    /\ acc_amp = <<>> /\ rms_n = 0 /\ tmp = ZeroSpectrum /\ pub_i = 0
    /\ workers = 0 /\ terminated = FALSE
    /\ ctl = "idle" /\ op = "none" /\ ret = "none"
    /\ out = <<>> /\ gs_n = 0 /\ gs_i = 0
    /\ openOk = FALSE /\ delivered = 0 /\ run_base = 0 /\ handed = <<>>
    /\ iter = 0 /\ fdec = 0 /\ sink = <<>>
    /\ framesSince = 0 /\ contSince = 0 /\ synthSince = 0
    /\ lossSincePrime = FALSE
    /\ rec_data = <<>> /\ rec_bytes = 0 /\ rec_handed = <<>> /\ teed = FALSE
    /\ wr_failed = FALSE
    /\ hilbert_hist_ = FreshRing /\ hilbert_pos_ = 0
    /\ delay_buf_ = FreshRing /\ delay_pos_ = 0
    /\ h_in = <<>> /\ h_out = <<>> /\ h_calls = 0
    /\ capture_ = FALSE /\ resample_buf_ = <<>> /\ resample_pos_ = 0
    /\ rpc = "idle" /\ r_frames = 0 /\ r_filled = 0 /\ r_buffer = <<>>
    /\ r_ret = 0 /\ captured = 0 /\ dropped = 0

Init == Constructed(FALSE)
InitLoud == Constructed(TRUE)

\* ---- control thread: RadaeDecoder lifecycle -------------------------------

\* the members close() releases, as close() leaves them (lines 369-378)
Closed ==
    [in |-> FALSE, out |-> FALSE, rade |-> FALSE, fargan |-> FALSE,
     fmode |-> FALSE, file |-> <<>>, fpos |-> 0]

\* open(): the members after close() and the acquisition steps, by the step
\* that fails ("ok": none)
OpenResult(outcome) ==
    LET c1 == [Closed EXCEPT !.in = TRUE]                     \* pa_in_ opened
        c2 == [c1 EXCEPT !.out = TRUE]                        \* pa_out_ opened
    IN  CASE outcome = "in_fail"   -> Closed
          [] outcome = "out_fail"  -> [c1 EXCEPT !.in = FALSE]
          [] outcome = "rade_fail" -> [c2 EXCEPT !.in = FALSE, !.out = FALSE]
          [] outcome = "ok"        -> [c2 EXCEPT !.rade = TRUE, !.fargan = TRUE]

\* open_file(): the same for a file of n samples; "file_fail" covers fopen,
\* header, empty data and empty resampling result
OpenFileResult(outcome, n) ==
    LET c1 == [Closed EXCEPT !.file = Range(0, n), !.fpos = 0]  \* preloaded
        c2 == [c1 EXCEPT !.out = TRUE]                          \* pa_out_ opened
    IN  CASE outcome = "file_fail" -> Closed
          [] outcome = "out_fail"  -> c1
          [] outcome = "rade_fail" -> [c2 EXCEPT !.out = FALSE]
          [] outcome = "ok"        -> [c2 EXCEPT !.rade = TRUE, !.fargan = TRUE,
                                                 !.fmode = TRUE]

\* start(): the early-return condition
StartRefused_norun ==
    (~pa_in_ /\ ~file_mode_) \/ ~pa_out_ \/ ~rade_
StartRefused ==
    (~pa_in_ /\ ~file_mode_) \/ ~pa_out_ \/ ~rade_ \/ running_

\* stop(): thread_.join() returns once the worker has left processing_loop
JoinReturns_nowait == TRUE
JoinReturns == ~thread_ \/ wpc = "exited"

\* the lock a thread asks for is granted when no thread holds it
Granted_always(m) == TRUE
Granted(m) == m = "free"

\* the end of a lock_guard's scope (lines 200, 527, 557) releases the lock
Unlocked_held(m) == m
Unlocked(m) == "free"

\* close(), line 367: stop_recording() leaves the flag false and no file open
RecordingAfterClose_kept(r) == r
RecordingAfterClose(r) == FALSE

\* close(), lines 380-384: the value each of the five scalars is set to
CloseValue_kept(v, zero) == v
CloseValue(v, zero) == zero

Return(o) == ctl' = "idle" /\ op' = "none" /\ ret' = o

\* the control thread calls an operation of the set S; open, open_file, close,
\* stop and the destructor begin with stop()
CallOf(S) ==
    /\ ctl = "idle" /\ ~terminated
    /\ \E o \in S :
         /\ op' = o
         /\ ctl' = IF o \in {"open", "open_file", "close", "stop", "destroy"}
                   THEN "stop_entry" ELSE "body"
    /\ UNCHANGED <<progVars, teleVars, lockVars, engineVars, apartVars, workerVars,
                   pipeVars, procVars, readVars, ret, histVars, recHist,
                   wr_failed>>

Call == CallOf(LifecycleOps)

\* stop(), lines 399-400; also the stop() at the head of close() and ~RadaeDecoder
stop_begin ==
    /\ ctl = "stop_entry" /\ ~terminated
    /\ IF ~running_
       THEN /\ ctl' = "body"
            /\ UNCHANGED running_
       ELSE /\ running_' = FALSE
            /\ ctl' = "stop_join"
    /\ UNCHANGED <<pa_in_, pa_out_, rade_, fargan_, file_mode_, file_audio_8k_,
                   file_pos_, thread_, synced_, fargan_ready_, warmup_count_,
                   recording_, rec_file_>>
    /\ UNCHANGED <<teleVars, lockVars, engineVars, apartVars, workerVars, pipeVars,
                   procVars, op, ret, readVars, histVars, recHist, wr_failed>>

\* stop(), lines 402-409: join, flush, reset of the levels and the sync flag;
\* the history of the joined run ends here
stop_join ==
    /\ ctl = "stop_join" /\ ~terminated
    /\ JoinReturns
    /\ thread_' = FALSE
    /\ wpc' = IF wpc = "exited" THEN "none" ELSE wpc
    /\ input_level_' = 0 /\ output_level_' = LevelZero
    /\ synced_' = FALSE
    /\ ctl' = "body"
    /\ UNCHANGED <<pa_in_, pa_out_, rade_, fargan_, file_mode_, file_audio_8k_,
                   file_pos_, running_, fargan_ready_, warmup_count_,
                   recording_, rec_file_>>
    /\ UNCHANGED <<snr_dB_, freq_offset_, input_gain_, lockVars, apartVars,
                   pipeVars, readVars>>
    /\ delivered' = 0 /\ run_base' = 0 /\ handed' = <<>>
    /\ iter' = 0 /\ fdec' = 0 /\ sink' = <<>>
    /\ rec_data' = <<>> /\ rec_bytes' = 0 /\ rec_handed' = <<>> /\ teed' = FALSE
    /\ wr_failed' = FALSE
    /\ UNCHANGED <<engineVars, nin, acc_8k, rx_buf, was_synced, output_primed,
                   n_frames, fi, procVars, op, ret, openOk, framesSince,
                   contSince, synthSince, lossSincePrime>>

\* stop() returns
stop ==
    /\ ctl = "body" /\ op = "stop" /\ ~terminated
    /\ Return("stop")
    /\ UNCHANGED <<progVars, teleVars, lockVars, engineVars, apartVars, workerVars,
                   pipeVars, procVars, readVars, histVars, recHist, wr_failed>>

\* close(), lines 367-384 (after its stop()): stop_recording(), release of
\* the collaborators, reset of the telemetry scalars
Closing ==
    /\ Granted(rec_mutex_)
    /\ recording_' = RecordingAfterClose(recording_)
    /\ rec_file_' = RecordingAfterClose(rec_file_)
    /\ pa_in_' = Closed.in /\ pa_out_' = Closed.out
    /\ rade_' = Closed.rade /\ fargan_' = Closed.fargan
    /\ file_mode_' = Closed.fmode /\ file_audio_8k_' = Closed.file
    /\ file_pos_' = Closed.fpos
    /\ synced_' = FALSE
    /\ snr_dB_' = CloseValue(snr_dB_, 0)
    /\ freq_offset_' = CloseValue(freq_offset_, 0)
    /\ input_level_' = CloseValue(input_level_, 0)
    /\ output_level_' = CloseValue(output_level_, LevelZero)
    /\ m_sync' = FALSE /\ m_nin' = 1 /\ fargan_st' = "init"
    /\ openOk' = FALSE
    /\ UNCHANGED <<running_, thread_, fargan_ready_, warmup_count_, input_gain_>>
    /\ UNCHANGED <<lockVars, apartVars, workerVars, pipeVars, readVars>>
    /\ UNCHANGED <<delivered, run_base, handed, iter, fdec, sink, framesSince,
                   contSince, synthSince, lossSincePrime, recHist, wr_failed>>

close ==
    /\ ctl = "body" /\ op = "close" /\ ~terminated
    /\ Closing
    /\ Return("close")
    /\ UNCHANGED procVars

\* the part of open() and open_file() after the collaborators are acquired:
\* fargan_init, warm-up reset (lines 272-275, 342-345), the spectrum cleared
\* (lines 287, 357), a fresh modem session; on failure the state close() left
Acquired(r, ok) ==
    /\ rec_mutex_ = "free"
    /\ pa_in_' = r.in /\ pa_out_' = r.out /\ rade_' = r.rade /\ fargan_' = r.fargan
    /\ file_mode_' = r.fmode /\ file_audio_8k_' = r.file /\ file_pos_' = r.fpos
    /\ recording_' = RecordingAfterClose(recording_)
    /\ rec_file_' = RecordingAfterClose(rec_file_)
    /\ synced_' = FALSE
    /\ snr_dB_' = CloseValue(snr_dB_, 0)
    /\ freq_offset_' = CloseValue(freq_offset_, 0)
    /\ input_level_' = CloseValue(input_level_, 0)
    /\ output_level_' = CloseValue(output_level_, LevelZero)
    /\ m_sync' = FALSE
    /\ fargan_st' = "init"
    /\ IF ok
       THEN /\ fargan_ready_' = FALSE /\ warmup_count_' = 0
            /\ framesSince' = 0 /\ contSince' = 0 /\ synthSince' = 0
            /\ lossSincePrime' = FALSE
            /\ m_nin' \in 1..NinMax
            /\ spectrum_mag_' = ZeroSpectrum
       ELSE /\ m_nin' = 1
            /\ UNCHANGED <<fargan_ready_, warmup_count_, framesSince, contSince,
                           synthSince, lossSincePrime, spectrum_mag_>>
    /\ openOk' = ok
    /\ UNCHANGED <<running_, thread_, input_gain_, spectrum_mutex_, rec_mutex_>>
    /\ UNCHANGED <<apartVars, workerVars, pipeVars, procVars, readVars>>
    /\ UNCHANGED <<delivered, run_base, handed, iter, fdec, sink, recHist,
                   wr_failed>>

\* open(device_name), lines 225-290 (after the stop() of its close())
open ==
    /\ ctl = "body" /\ op = "open" /\ ~terminated
    /\ \E outcome \in {"in_fail", "out_fail", "rade_fail", "ok"} :
         Acquired(OpenResult(outcome), outcome = "ok")
    /\ Return("open")

\* open_file(wav_path), lines 292-362 (after the stop() of its close())
open_file ==
    /\ ctl = "body" /\ op = "open_file" /\ ~terminated
    /\ \E outcome \in {"file_fail", "out_fail", "rade_fail", "ok"},
          n \in 1..MaxFileLen :
         Acquired(OpenFileResult(outcome, n), outcome = "ok")
    /\ Return("open_file")

\* start(), lines 389-395.  The std::thread is constructed (the new worker
\* exists) and then move-assigned to thread_; assigning to a joinable
\* std::thread calls std::terminate.
start ==
    /\ ctl = "body" /\ op = "start" /\ ~terminated
    /\ IF StartRefused
       THEN UNCHANGED <<progVars, workerVars, procVars, histVars, recHist,
                        wr_failed>>
       ELSE /\ running_' = TRUE
            /\ workers' = workers + 1
            /\ IF thread_
               THEN /\ terminated' = TRUE
                    /\ UNCHANGED <<thread_, workerVars, histVars, recHist,
                                   wr_failed>>
               ELSE /\ thread_' = TRUE
                    /\ wpc' = "begin"
                    /\ delivered' = 0
                    /\ run_base' = IF file_mode_ THEN file_pos_ ELSE 0
                    /\ handed' = <<>> /\ iter' = 0 /\ fdec' = 0 /\ sink' = <<>>
                    /\ rec_data' = <<>> /\ rec_bytes' = 0 /\ rec_handed' = <<>> /\ teed' = FALSE
                    /\ wr_failed' = FALSE
                    /\ UNCHANGED <<terminated, nin, acc_8k, rx_buf, was_synced,
                                   output_primed, n_frames, fi, openOk,
                                   framesSince, contSince, synthSince,
                                   lossSincePrime>>
            /\ UNCHANGED <<pa_in_, pa_out_, rade_, fargan_, file_mode_,
                           file_audio_8k_, file_pos_, synced_, fargan_ready_,
                           warmup_count_, recording_, rec_file_>>
    /\ Return("start")
    /\ UNCHANGED <<teleVars, lockVars, engineVars, apartVars, pipeVars, readVars>>

\* ~RadaeDecoder(), line 25: stop(); close(); then the members are destroyed,
\* and destroying a joinable std::thread calls std::terminate
destructor ==
    /\ ctl = "body" /\ op = "destroy" /\ ~terminated
    /\ Closing
    /\ terminated' = thread_
    /\ ctl' = "destroyed" /\ op' = "none" /\ ret' = "destroy"
    /\ UNCHANGED workers

\* A store that is taken whatever fopen returned
FlagAfterOpen_always(opened, flag) == TRUE

\* recording_ after fopen, lines 209-210: the flag is stored only when the
\* file was opened
FlagAfterOpen(opened, flag) == opened \/ flag

\* start_recording(path), lines 204-214, under rec_mutex_; fopen(path, "wb")
\* leaves an empty file
start_recording ==
    /\ ctl = "body" /\ op = "start_recording" /\ ~terminated
    /\ Granted(rec_mutex_)
    /\ IF rec_file_
       THEN UNCHANGED <<rec_file_, recording_, recHist>>
       ELSE \E opened \in BOOLEAN :
              /\ rec_file_' = opened
              /\ recording_' = FlagAfterOpen(opened, recording_)
              /\ IF opened
                 THEN /\ rec_data' = <<>> /\ rec_bytes' = 0
                      /\ rec_handed' = <<>> /\ teed' = FALSE
                 ELSE UNCHANGED recHist
    /\ Return("start_recording")
    /\ UNCHANGED <<pa_in_, pa_out_, rade_, fargan_, file_mode_, file_audio_8k_,
                   file_pos_, running_, thread_, synced_, fargan_ready_,
                   warmup_count_>>
    /\ UNCHANGED <<teleVars, lockVars, engineVars, apartVars, workerVars, pipeVars,
                   procVars, readVars, histVars, wr_failed>>

\* stop_recording(), line 218: recording_.store(false)
stop_recording_store ==
    /\ ctl = "body" /\ op = "stop_recording" /\ ~terminated
    /\ recording_' = FALSE
    /\ ctl' = "rec_close"
    /\ UNCHANGED <<pa_in_, pa_out_, rade_, fargan_, file_mode_, file_audio_8k_,
                   file_pos_, running_, thread_, synced_, fargan_ready_,
                   warmup_count_, rec_file_>>
    /\ UNCHANGED <<teleVars, lockVars, engineVars, apartVars, workerVars, pipeVars,
                   procVars, op, ret, readVars, histVars, recHist, wr_failed>>

\* stop_recording(), lines 219-221: the file is closed under rec_mutex_
stop_recording ==
    /\ ctl = "rec_close" /\ ~terminated
    /\ Granted(rec_mutex_)
    /\ rec_file_' = FALSE
    /\ Return("stop_recording")
    /\ UNCHANGED <<pa_in_, pa_out_, rade_, fargan_, file_mode_, file_audio_8k_,
                   file_pos_, running_, thread_, synced_, fargan_ready_,
                   warmup_count_, recording_>>
    /\ UNCHANGED <<teleVars, lockVars, engineVars, apartVars, workerVars, pipeVars,
                   procVars, readVars, histVars, recHist, wr_failed>>

\* set_input_gain(g), rade_decoder.h line 41
set_input_gain ==
    /\ ctl = "body" /\ op = "set_input_gain" /\ ~terminated
    /\ \E g \in GainValues : input_gain_' = g
    /\ Return("set_input_gain")
    /\ UNCHANGED <<progVars, snr_dB_, freq_offset_, input_level_, output_level_,
                   lockVars, engineVars, apartVars, workerVars, pipeVars, procVars,
                   readVars, histVars, recHist, wr_failed>>

\* get_spectrum(out, n), lines 197-198: the lock is taken, count = min(n, bins)
BinsCopied_all(n) == SPECTRUM_BINS
BinsCopied(n) == Min(n, SPECTRUM_BINS)

get_spectrum_lock ==
    /\ ctl = "body" /\ op = "get_spectrum" /\ ~terminated
    /\ Granted(spectrum_mutex_)
    /\ spectrum_mutex_' = "reader"
    /\ \E n \in 0..(SPECTRUM_BINS + 1) : gs_n' = n
    /\ gs_i' = 0
    /\ out' = <<>>
    /\ ctl' = "gs_copy"
    /\ UNCHANGED <<progVars, teleVars, spectrum_mag_, rec_mutex_, engineVars,
                   apartVars, workerVars, pipeVars, procVars, op, ret, histVars,
                   recHist, wr_failed>>

\* line 199: memcpy(out, spectrum_mag_, count * sizeof(float)), bin by bin
get_spectrum_copy ==
    /\ ctl = "gs_copy" /\ ~terminated
    /\ gs_i < BinsCopied(gs_n)
    /\ out' = Append(out, spectrum_mag_[gs_i + 1])
    /\ gs_i' = gs_i + 1
    /\ UNCHANGED <<progVars, teleVars, lockVars, engineVars, apartVars, workerVars,
                   pipeVars, procVars, ctlVars, gs_n, histVars, recHist,
                   wr_failed>>

\* line 200: the lock_guard releases, get_spectrum returns
get_spectrum ==
    /\ ctl = "gs_copy" /\ ~terminated
    /\ gs_i >= BinsCopied(gs_n)
    /\ spectrum_mutex_' = Unlocked(spectrum_mutex_)
    /\ Return("get_spectrum")
    /\ UNCHANGED <<progVars, teleVars, spectrum_mag_, rec_mutex_, engineVars,
                   apartVars, workerVars, pipeVars, procVars, readVars, histVars,
                   recHist, wr_failed>>

\* ---- worker thread: processing_loop ---------------------------------------

\* line 478: the accumulation loop goes on
NeedMore_deaf(acc, n, run) == Len(acc) < n
NeedMore_offbyone(acc, n, run) == Len(acc) + 1 < n /\ run
NeedMore(acc, n, run) == Len(acc) < n /\ run

\* line 576: acc_8k.erase(begin, begin + nin)
Erase_short(acc, n) == SubSeq(acc, n, Len(acc))
Erase(acc, n) == SubSeq(acc, n + 1, Len(acc))

\* line 595: the sync-loss edge
LostSync_inverted(was, now) == ~was /\ now
LostSync(was, now) == was /\ ~now

\* line 619: ++warmup_count_ >= 5
WarmupDone_early(c) == c >= WARMUP_FRAMES - 1
WarmupDone(c) == c >= WARMUP_FRAMES

\* the amplitude of every sample the source delivers, and of the vocoder's
\* output, in units of 1/AMP_ONE
SourceAmp == IF loud THEN 1 ELSE 0
VocoderAmp == IF loud THEN 1 ELSE 0
\* the modem's SNR and frequency offset estimates
Estimate == IF loud THEN 1 ELSE 0

Isqrt(x) == CHOOSE r \in 0..x : r * r <= x /\ (r + 1) * (r + 1) > x

\* lines 517-521: float to int16, scaled by 32768 and clamped
I16(a) ==
    LET s == (a * 32768) \div AMP_ONE
    IN  IF s > 32767 THEN 32767 ELSE IF s < -32768 THEN -32768 ELSE s

\* acc_8k[i] as the loop body reads it; the buffer holds at least nin samples
\* there, and a read past its end is taken as silence
Sample(amps, i) == IF i \in DOMAIN amps THEN amps[i] ELSE 0

\* lines 516-526: the samples the tee writes, the first n of the buffer,
\* each with its position and its 16-bit value
TeeBlock_all(acc, amps, n) ==
    [i \in 1..Len(acc) |-> <<acc[i], I16(amps[i])>>]
TeeBlock(acc, amps, n) ==
    [i \in 1..n |-> <<Sample(acc, i), I16(Sample(amps, i))>>]

\* lines 531-535: the gain multiplies the first n samples of the buffer
Gained_all(amps, n, g) ==
    [i \in 1..Len(amps) |-> amps[i] * g]
Gained(amps, n, g) ==
    [i \in 1..Len(amps) |-> IF i <= n /\ g # UNITY_GAIN THEN amps[i] * g ELSE amps[i]]

\* line 539: the snapshot is computed when the buffer holds a whole window
WindowAvailable_short(acc) == Len(acc) >= FFT_SIZE - 1
WindowAvailable(acc) == Len(acc) >= FFT_SIZE

\* lines 539-553: the snapshot of the last FFT_SIZE samples of the buffer: a
\* window of zeros gives the floor in every bin, any other window a value
\* per bin that tells the window (its last position, its amplitudes) and
\* the bin
Snapshot(acc, amps) ==
    LET w == [i \in 1..FFT_SIZE |-> Sample(amps, Len(amps) - FFT_SIZE + i)]
        d == 100 * Sample(acc, Len(acc)) + SumSeq(w)
    IN  [b \in 1..SPECTRUM_BINS |->
           IF SumSeq(w) = 0 THEN FLOOR_DB ELSE 10 * d + b]

\* lines 561-567: the RMS of the first n samples of the buffer
InputLevel(amps, n) ==
    Isqrt(SumSeq([i \in 1..n |-> Sample(amps, i) * Sample(amps, i)]) \div n)

\* lines 652-654, 666: the RMS over the n frames synthesized in an iteration
OutputRms(n) == Isqrt((n * VocoderAmp * VocoderAmp) \div n)

\* line 672: lvl * 0.9f; the level is rms * 0.9^decays, and MaxDecay stands
\* for MaxDecay decays or more
Decay_none(l) == l
Decay(l) ==
    IF l.rms = 0 THEN l ELSE [l EXCEPT !.decays = Min(@ + 1, MaxDecay)]

\* the worker leaves processing_loop; its locals die with it
Exit ==
    /\ wpc' = "exited"
    /\ workers' = workers - 1
    /\ nin' = 0 /\ acc_8k' = <<>> /\ rx_buf' = <<>>
    /\ was_synced' = FALSE /\ output_primed' = FALSE
    /\ n_frames' = 0 /\ fi' = 0
    /\ acc_amp' = <<>> /\ rms_n' = 0 /\ tmp' = ZeroSpectrum /\ pub_i' = 0

\* lines 453-471: buffer sizes from the modem, locals
w_begin ==
    /\ wpc = "begin" /\ ~terminated
    /\ nin' = 0 /\ acc_8k' = <<>> /\ rx_buf' = <<>>
    /\ was_synced' = FALSE /\ output_primed' = FALSE
    /\ n_frames' = 0 /\ fi' = 0
    /\ acc_amp' = <<>> /\ rms_n' = 0 /\ tmp' = ZeroSpectrum /\ pub_i' = 0
    /\ wpc' = "top"
    /\ UNCHANGED <<progVars, teleVars, lockVars, engineVars, apartVars, procVars,
                   ctlVars, readVars, histVars, recHist, wr_failed>>

\* line 473: while (running_); a run over a file ends with the file, a run
\* over the capture stream is followed for limit iterations
LoopTop(limit) ==
    /\ ~terminated
    /\ IF running_
       THEN /\ iter < limit \/ file_mode_
            /\ wpc' = "nin"
            /\ UNCHANGED <<nin, acc_8k, rx_buf, was_synced, output_primed,
                           n_frames, fi, pipeVars, workers>>
       ELSE Exit
    /\ UNCHANGED <<progVars, teleVars, lockVars, engineVars, apartVars, terminated,
                   ctlVars, readVars, histVars, recHist, wr_failed>>

w_top ==
    /\ wpc = "top"
    /\ LoopTop(MaxIter)

w_top_long ==
    /\ wpc = "top"
    /\ LoopTop(MaxIterLong)

\* line 475: nin = rade_nin(rade_)
w_nin ==
    /\ wpc = "nin" /\ ~terminated
    /\ nin' = m_nin
    /\ iter' = iter + 1
    /\ wpc' = "acc"
    /\ UNCHANGED <<progVars, teleVars, lockVars, engineVars, apartVars, acc_8k,
                   rx_buf, was_synced, output_primed, n_frames, fi, pipeVars,
                   procVars, ctlVars, readVars>>
    /\ UNCHANGED <<openOk, delivered, run_base, handed, fdec, sink, framesSince,
                   contSince, synthSince, lossSincePrime, recHist, wr_failed>>

\* lines 478-479: the condition of the accumulation loop
w_acc ==
    /\ wpc = "acc" /\ ~terminated
    /\ wpc' = IF NeedMore(acc_8k, nin, running_) THEN "read" ELSE "chk"
    /\ UNCHANGED <<progVars, teleVars, lockVars, engineVars, apartVars, nin, acc_8k,
                   rx_buf, was_synced, output_primed, n_frames, fi, pipeVars,
                   procVars, ctlVars, readVars, histVars, recHist, wr_failed>>

\* lines 481-493: file mode, copy from the preloaded buffer
w_read_file ==
    /\ wpc = "read" /\ ~terminated /\ file_mode_
    /\ LET remaining == Len(file_audio_8k_) - file_pos_
           need      == nin - Len(acc_8k)
           chunk     == Min(need, remaining)
       IN  IF remaining = 0
           THEN /\ running_' = FALSE
                /\ wpc' = "chk"
                /\ UNCHANGED <<acc_8k, acc_amp, file_pos_, delivered>>
           ELSE /\ acc_8k' = acc_8k \o SubSeq(file_audio_8k_, file_pos_ + 1,
                                               file_pos_ + chunk)
                /\ acc_amp' = acc_amp \o Fill(chunk, SourceAmp)
                /\ file_pos_' = file_pos_ + chunk
                /\ delivered' = delivered + chunk
                /\ wpc' = "acc"
                /\ UNCHANGED running_
    /\ UNCHANGED <<pa_in_, pa_out_, rade_, fargan_, file_mode_, file_audio_8k_,
                   thread_, synced_, fargan_ready_, warmup_count_, recording_,
                   rec_file_>>
    /\ UNCHANGED <<teleVars, lockVars, engineVars, apartVars, nin, rx_buf,
                   was_synced, output_primed, n_frames, fi, rms_n, tmp, pub_i,
                   procVars, ctlVars, readVars>>
    /\ UNCHANGED <<openOk, run_base, handed, iter, fdec, sink, framesSince,
                   contSince, synthSince, lossSincePrime, recHist, wr_failed>>

\* lines 495-509: live mode, blocking pa_simple_read of READ_FRAMES samples
w_read_live ==
    /\ wpc = "read" /\ ~terminated /\ ~file_mode_
    /\ \E failed \in BOOLEAN :
         IF failed
         THEN /\ running_' = FALSE
              /\ wpc' = "chk"
              /\ UNCHANGED <<acc_8k, acc_amp, delivered>>
         ELSE /\ acc_8k' = acc_8k \o Range(delivered, delivered + READ_FRAMES)
              /\ acc_amp' = acc_amp \o Fill(READ_FRAMES, SourceAmp)
              /\ delivered' = delivered + READ_FRAMES
              /\ wpc' = "acc"
              /\ UNCHANGED running_
    /\ UNCHANGED <<pa_in_, pa_out_, rade_, fargan_, file_mode_, file_audio_8k_,
                   file_pos_, thread_, synced_, fargan_ready_, warmup_count_,
                   recording_, rec_file_>>
    /\ UNCHANGED <<teleVars, lockVars, engineVars, apartVars, nin, rx_buf,
                   was_synced, output_primed, n_frames, fi, rms_n, tmp, pub_i,
                   procVars, ctlVars, readVars>>
    /\ UNCHANGED <<openOk, run_base, handed, iter, fdec, sink, framesSince,
                   contSince, synthSince, lossSincePrime, recHist, wr_failed>>

\* line 512: if (!running_) break
w_chk ==
    /\ wpc = "chk" /\ ~terminated
    /\ IF running_
       THEN /\ wpc' = "proc"
            /\ UNCHANGED <<nin, acc_8k, rx_buf, was_synced, output_primed,
                           n_frames, fi, pipeVars, workers>>
       ELSE Exit
    /\ UNCHANGED <<progVars, teleVars, lockVars, engineVars, apartVars, terminated,
                   ctlVars, readVars, histVars, recHist, wr_failed>>

\* lines 560-576: the input level over the first nin samples, then
\* hilbert_process converts them into rx_buf (line 571) and they are erased
\* (line 576); rx_buf holds the positions of the samples converted in this
\* iteration
Consume(amps, wrote) ==
    LET block == SubSeq(acc_8k, 1, Min(nin, Len(acc_8k)))
    IN  /\ input_level_' = InputLevel(amps, nin)
        /\ rx_buf' = block
        /\ handed' = handed \o block
        /\ rec_handed' = IF wrote THEN rec_handed \o block ELSE rec_handed
        /\ acc_8k' = Erase(acc_8k, nin)
        /\ acc_amp' = Erase(amps, nin)

\* lines 514-576 as one step: tee, gain, spectrum, input level, hilbert_process,
\* erase.  No other thread holds a lock in the specifications that take it.
w_proc ==
    /\ wpc = "proc" /\ ~terminated
    /\ LET wrote == recording_ /\ rec_file_
           amps  == Gained(acc_amp, nin, input_gain_)
       IN  /\ wrote => Granted(rec_mutex_)
           /\ IF wrote
              THEN /\ rec_data' = rec_data \o TeeBlock(acc_8k, acc_amp, nin)
                   /\ rec_bytes' = rec_bytes + INT16_BYTES * nin
              ELSE UNCHANGED <<rec_data, rec_bytes>>
           /\ teed' = wrote
           /\ IF WindowAvailable(acc_8k)
              THEN /\ Granted(spectrum_mutex_)
                   /\ spectrum_mag_' = Snapshot(acc_8k, amps)
              ELSE UNCHANGED spectrum_mag_
           /\ Consume(amps, wrote)
    /\ wpc' = "rx"
    /\ UNCHANGED <<progVars, snr_dB_, freq_offset_, output_level_, input_gain_,
                   spectrum_mutex_, rec_mutex_, engineVars, apartVars, nin, was_synced,
                   output_primed, n_frames, fi, rms_n, tmp, pub_i, procVars,
                   ctlVars, readVars>>
    /\ UNCHANGED <<openOk, delivered, run_base, iter, fdec, sink, framesSince,
                   contSince, synthSince, lossSincePrime, wr_failed>>

\* the same lines step by step.  Lines 515-522: recording_ is read, the
\* samples are converted
p_tee ==
    /\ wpc = "proc" /\ ~terminated
    /\ wpc' = IF recording_ THEN "tee_lock" ELSE "gain"
    /\ teed' = FALSE
    /\ UNCHANGED <<progVars, teleVars, lockVars, engineVars, apartVars, nin, acc_8k,
                   rx_buf, was_synced, output_primed, n_frames, fi, pipeVars,
                   procVars, ctlVars, readVars, histVars, rec_data, rec_bytes,
                   rec_handed, wr_failed>>

\* line 523: lock_guard lock(rec_mutex_)
p_tee_lock ==
    /\ wpc = "tee_lock" /\ ~terminated
    /\ Granted(rec_mutex_)
    /\ rec_mutex_' = "worker"
    /\ wpc' = "tee_check"
    /\ UNCHANGED <<progVars, teleVars, spectrum_mag_, spectrum_mutex_, engineVars,
                   apartVars, nin, acc_8k, rx_buf, was_synced, output_primed,
                   n_frames, fi, pipeVars, procVars, ctlVars, readVars, histVars,
                   recHist, wr_failed>>

\* line 524: if (rec_file_); with no file the lock_guard releases at line 527
p_tee_check ==
    /\ wpc = "tee_check" /\ ~terminated
    /\ IF rec_file_
       THEN /\ wpc' = "tee_write"
            /\ UNCHANGED rec_mutex_
       ELSE /\ wpc' = "gain"
            /\ rec_mutex_' = Unlocked(rec_mutex_)
    /\ UNCHANGED <<progVars, teleVars, spectrum_mag_, spectrum_mutex_, engineVars,
                   apartVars, nin, acc_8k, rx_buf, was_synced, output_primed,
                   n_frames, fi, pipeVars, procVars, ctlVars, readVars, histVars,
                   recHist, wr_failed>>

\* lines 525-527: fwrite of the block to the file that was found open, then
\* the lock_guard releases
p_tee_write ==
    /\ wpc = "tee_write" /\ ~terminated
    /\ rec_data' = rec_data \o TeeBlock(acc_8k, acc_amp, nin)
    /\ rec_bytes' = rec_bytes + INT16_BYTES * nin
    /\ teed' = TRUE
    /\ rec_mutex_' = Unlocked(rec_mutex_)
    /\ wpc' = "gain"
    /\ UNCHANGED <<progVars, teleVars, spectrum_mag_, spectrum_mutex_, engineVars,
                   apartVars, nin, acc_8k, rx_buf, was_synced, output_primed,
                   n_frames, fi, pipeVars, procVars, ctlVars, readVars, histVars,
                   rec_handed, wr_failed>>

\* lines 529-553: input_gain_ is read and applied, the snapshot is computed
\* into tmp when the buffer holds a window
p_gain ==
    /\ wpc = "gain" /\ ~terminated
    /\ acc_amp' = Gained(acc_amp, nin, input_gain_)
    /\ IF WindowAvailable(acc_8k)
       THEN /\ tmp' = Snapshot(acc_8k, acc_amp')
            /\ wpc' = "pub_lock"
       ELSE /\ wpc' = "level"
            /\ UNCHANGED tmp
    /\ UNCHANGED <<progVars, teleVars, lockVars, engineVars, apartVars, nin, acc_8k,
                   rx_buf, was_synced, output_primed, n_frames, fi, rms_n, pub_i,
                   procVars, ctlVars, readVars, histVars, recHist, wr_failed>>

\* line 555: lock_guard lock(spectrum_mutex_)
p_pub_lock ==
    /\ wpc = "pub_lock" /\ ~terminated
    /\ Granted(spectrum_mutex_)
    /\ spectrum_mutex_' = "worker"
    /\ pub_i' = 0
    /\ wpc' = "pub_copy"
    /\ UNCHANGED <<progVars, teleVars, spectrum_mag_, rec_mutex_, engineVars,
                   apartVars, nin, acc_8k, rx_buf, was_synced, output_primed,
                   n_frames, fi, acc_amp, rms_n, tmp, procVars, ctlVars,
                   readVars, histVars, recHist, wr_failed>>

\* line 556: memcpy(spectrum_mag_, tmp, sizeof(spectrum_mag_)), bin by bin
p_pub_copy ==
    /\ wpc = "pub_copy" /\ ~terminated
    /\ pub_i < SPECTRUM_BINS
    /\ spectrum_mag_' = [spectrum_mag_ EXCEPT ![pub_i + 1] = tmp[pub_i + 1]]
    /\ pub_i' = pub_i + 1
    /\ UNCHANGED <<progVars, teleVars, spectrum_mutex_, rec_mutex_, engineVars,
                   apartVars, workerVars, acc_amp, rms_n, tmp, procVars, ctlVars,
                   readVars, histVars, recHist, wr_failed>>

\* line 557: the lock_guard releases
p_pub_unlock ==
    /\ wpc = "pub_copy" /\ ~terminated
    /\ pub_i >= SPECTRUM_BINS
    /\ spectrum_mutex_' = Unlocked(spectrum_mutex_)
    /\ wpc' = "level"
    /\ UNCHANGED <<progVars, teleVars, spectrum_mag_, rec_mutex_, engineVars,
                   apartVars, nin, acc_8k, rx_buf, was_synced, output_primed,
                   n_frames, fi, pipeVars, procVars, ctlVars, readVars, histVars,
                   recHist, wr_failed>>

\* lines 560-576: input level, hilbert_process, erase
p_level ==
    /\ wpc = "level" /\ ~terminated
    /\ Consume(acc_amp, teed)
    /\ wpc' = "rx"
    /\ UNCHANGED <<progVars, snr_dB_, freq_offset_, output_level_, input_gain_,
                   lockVars, engineVars, apartVars, nin, was_synced, output_primed,
                   n_frames, fi, rms_n, tmp, pub_i, procVars, ctlVars, readVars>>
    /\ UNCHANGED <<openOk, delivered, run_base, iter, fdec, sink, framesSince,
                   contSince, synthSince, lossSincePrime, rec_data, rec_bytes,
                   teed, wr_failed>>

\* lines 587-592: an estimate is stored only if the modem is in sync
Refreshed_always(now, est, old) == est
Refreshed(now, est, old) == IF now THEN est ELSE old

\* lines 579-602: rade_rx, sync status, estimates, sync-loss reset of the
\* vocoder; lines 669-673 when rade_rx returned no frame
w_rx ==
    /\ wpc = "rx" /\ ~terminated
    /\ \E now_synced \in BOOLEAN, k \in 0..MaxFramesPerRx, next_nin \in 1..NinMax :
         LET lost == LostSync(was_synced, now_synced)
         IN  /\ (IF lost THEN 0 ELSE framesSince) + k <= MaxSince
             /\ m_sync' = now_synced
             /\ m_nin' = next_nin
             /\ synced_' = now_synced
             /\ snr_dB_' = Refreshed(now_synced, Estimate, snr_dB_)
             /\ freq_offset_' = Refreshed(now_synced, Estimate, freq_offset_)
             /\ IF lost
                THEN /\ fargan_st' = "init"
                     /\ fargan_ready_' = FALSE
                     /\ warmup_count_' = 0
                     /\ output_primed' = FALSE
                     /\ framesSince' = 0 /\ contSince' = 0 /\ synthSince' = 0
                ELSE UNCHANGED <<fargan_st, fargan_ready_, warmup_count_,
                                 output_primed, framesSince, contSince,
                                 synthSince>>
             /\ was_synced' = now_synced
             /\ lossSincePrime' = (lossSincePrime \/ (m_sync /\ ~now_synced))
             /\ n_frames' = k
             /\ fi' = 0
             /\ rms_n' = 0
             /\ fdec' = fdec + k
             /\ output_level_' = IF k > 0 THEN output_level_ ELSE Decay(output_level_)
             /\ wpc' = IF k > 0 THEN "frames" ELSE "top"
    /\ UNCHANGED <<pa_in_, pa_out_, rade_, fargan_, file_mode_, file_audio_8k_,
                   file_pos_, running_, thread_, recording_, rec_file_>>
    /\ UNCHANGED <<input_level_, input_gain_, lockVars, apartVars, nin, acc_8k,
                   rx_buf, acc_amp, tmp, pub_i, procVars, ctlVars, readVars>>
    /\ UNCHANGED <<openOk, delivered, run_base, handed, iter, sink, recHist,
                   wr_failed>>

\* where the frame loop goes after frame fi (line 610)
AfterFrame(i) == IF i + 1 < n_frames THEN "frames" ELSE "top"

\* lines 665-668, after the last frame of the iteration: the output level is
\* stored when n frames were synthesized and n > 0
LevelStored_always(i, n) == AfterFrame(i) = "top"
LevelStored(i, n) == AfterFrame(i) = "top" /\ n > 0

LoopEnd(i, n) ==
    output_level_' = IF LevelStored(i, n)
                     THEN [rms |-> OutputRms(n), decays |-> 0]
                     ELSE output_level_

\* lines 614-644: a warm-up frame; the fifth calls fargan_cont and, the
\* first time in this run (or since a sync loss), writes the silence prefill
w_warmup ==
    /\ wpc = "frames" /\ ~terminated /\ ~fargan_ready_
    /\ warmup_count_' = warmup_count_ + 1
    /\ framesSince' = framesSince + 1
    /\ IF WarmupDone(warmup_count_ + 1)
       THEN /\ fargan_st' = "primed"
            /\ fargan_ready_' = TRUE
            /\ contSince' = contSince + 1
            /\ lossSincePrime' = FALSE
            /\ sink' = IF output_primed THEN sink ELSE Append(sink, 0)
            /\ output_primed' = TRUE
       ELSE UNCHANGED <<fargan_st, fargan_ready_, contSince, lossSincePrime,
                        sink, output_primed>>
    /\ fi' = fi + 1
    /\ wpc' = AfterFrame(fi)
    /\ LoopEnd(fi, rms_n)
    /\ UNCHANGED <<pa_in_, pa_out_, rade_, fargan_, file_mode_, file_audio_8k_,
                   file_pos_, running_, thread_, synced_, recording_, rec_file_>>
    /\ UNCHANGED <<snr_dB_, freq_offset_, input_level_, input_gain_, lockVars,
                   apartVars, m_sync, m_nin, nin, acc_8k, rx_buf, was_synced,
                   n_frames, pipeVars, procVars, ctlVars, readVars>>
    /\ UNCHANGED <<openOk, delivered, run_base, handed, iter, fdec, synthSince,
                   recHist, wr_failed>>

\* lines 646-657: fargan_synthesize of one frame, its samples added to the
\* RMS sums, then the check of running_
w_synth ==
    /\ wpc = "frames" /\ ~terminated /\ fargan_ready_
    /\ synthSince' = synthSince + 1
    /\ framesSince' = framesSince + 1
    /\ rms_n' = rms_n + 1
    /\ IF running_
       THEN /\ wpc' = "write"
            /\ UNCHANGED <<fi, output_level_>>
       ELSE /\ wpc' = AfterFrame(fi)
            /\ fi' = fi + 1
            /\ LoopEnd(fi, rms_n + 1)
    /\ UNCHANGED <<progVars, snr_dB_, freq_offset_, input_level_, input_gain_,
                   lockVars, engineVars, apartVars, nin, acc_8k, rx_buf, was_synced,
                   output_primed, n_frames, acc_amp, tmp, pub_i, procVars,
                   ctlVars, readVars>>
    /\ UNCHANGED <<openOk, delivered, run_base, handed, iter, fdec, sink,
                   contSince, lossSincePrime, recHist, wr_failed>>

\* lines 658-660: pa_simple_write of the synthesized frame; its return value
\* is not looked at, so a failed write differs only in what the sink received
Written(failed) ==
    /\ sink' = IF failed THEN sink ELSE Append(sink, fdec - n_frames + fi + 1)
    /\ wr_failed' = (wr_failed \/ failed)
    /\ fi' = fi + 1
    /\ wpc' = AfterFrame(fi)
    /\ LoopEnd(fi, rms_n)
    /\ UNCHANGED <<progVars, snr_dB_, freq_offset_, input_level_, input_gain_,
                   lockVars, engineVars, apartVars, nin, acc_8k, rx_buf, was_synced,
                   output_primed, n_frames, pipeVars, procVars, ctlVars,
                   readVars>>
    /\ UNCHANGED <<openOk, delivered, run_base, handed, iter, fdec, framesSince,
                   contSince, synthSince, lossSincePrime, recHist>>

w_write ==
    /\ wpc = "write" /\ ~terminated
    /\ Written(FALSE)

w_write_fail ==
    /\ wpc = "write" /\ ~terminated
    /\ Written(TRUE)

\* ---- analytic signal generator: hilbert_process ----------------------------

\* init_hilbert_coeffs, lines 29-41: zero at the centre and at even distances
\* from it, else 2/(pi n) times a positive window weight; here COEFF_SCALE / n
COEFF_SCALE == 6
Coeff(k) ==
    LET n == k - (HILBERT_NTAPS - 1) \div 2
    IN  IF n % 2 = 0 THEN 0 ELSE COEFF_SCALE \div n

\* lines 431-432 and 439-440: an index below 0 wraps to the end of the ring
Wrap_off(i) == IF i < 0 THEN i + HILBERT_NTAPS - 1 ELSE i
Wrap(i) == IF i < 0 THEN i + HILBERT_NTAPS ELSE i

\* lines 423-445: one sample through the generator; st is the rings and their
\* positions, the result the new st and the output <<real, imag>>
HilbertSample(st, sample) ==
    LET hist  == [st.hist EXCEPT ![st.pos] = sample]
        imag  == SumSeq([k \in 1..HILBERT_NTAPS |->
                           Coeff(k - 1) * hist[Wrap(st.pos - (k - 1))]])
        delay == [st.delay EXCEPT ![st.dpos] = sample]
        real  == delay[Wrap(st.dpos - HILBERT_DELAY)]
    IN  [st  |-> [hist |-> hist, pos |-> (st.pos + 1) % HILBERT_NTAPS,
                  delay |-> delay, dpos |-> (st.dpos + 1) % HILBERT_NTAPS],
         out |-> <<real, imag>>]

\* lines 419-447: the loop over the n samples of a call
RECURSIVE HilbertProcess(_, _)
HilbertProcess(st, in) ==
    IF in = <<>>
    THEN [st |-> st, out |-> <<>>]
    ELSE LET one  == HilbertSample(st, Head(in))
             more == HilbertProcess(one.st, Tail(in))
         IN  [st |-> more.st, out |-> <<one.out>> \o more.out]

\* lines 571-573: the rings and their positions are members, handed to
\* hilbert_process by reference: a call goes on where the call before ended
CallState_restarted(hist, pos, delay, dpos) ==
    [hist |-> hist, pos |-> 0, delay |-> delay, dpos |-> 0]
CallState(hist, pos, delay, dpos) ==
    [hist |-> hist, pos |-> pos, delay |-> delay, dpos |-> dpos]

\* line 571: hilbert_process(acc_8k.data(), rx_buf.data(), nin, ...) on a
\* block of n samples; a call with n = 0 runs no iteration and changes nothing
hilbert_process ==
    /\ \E n \in 1..MaxCall :
         /\ Len(h_in) + n <= MaxStream
         /\ \E in \in [1..n -> HilbertAmps] :
              LET r == HilbertProcess(CallState(hilbert_hist_, hilbert_pos_,
                                                delay_buf_, delay_pos_),
                                      in)
              IN  /\ hilbert_hist_' = r.st.hist /\ hilbert_pos_' = r.st.pos
                  /\ delay_buf_' = r.st.delay /\ delay_pos_' = r.st.dpos
                  /\ h_in' = h_in \o in
                  /\ h_out' = h_out \o r.out
    /\ h_calls' = h_calls + 1
    /\ UNCHANGED <<progVars, teleVars, lockVars, engineVars, envVars, wasapiVars,
                   workerVars, pipeVars, procVars, ctlVars, readVars, histVars,
                   recHist, wr_failed>>

\* open() and open_file(), lines 277-282 and 347-352: the rings are cleared,
\* a new stream begins
hilbert_reset ==
    /\ hilbert_hist_' = FreshRing /\ hilbert_pos_' = 0
    /\ delay_buf_' = FreshRing /\ delay_pos_' = 0
    /\ h_in' = <<>> /\ h_out' = <<>> /\ h_calls' = 0
    /\ UNCHANGED <<progVars, teleVars, lockVars, engineVars, envVars, wasapiVars,
                   workerVars, pipeVars, procVars, ctlVars, readVars, histVars,
                   recHist, wr_failed>>

\* ---- WasapiCapture: read and resample_into (audio_wasapi.cpp) --------------

\* device_rate_ and target_rate_ (lines 109 and 154), in units of the target
\* rate: the device delivers Ratio frames per frame the caller reads
DeviceRate == 2
TargetRate == 1
Ratio == DeviceRate \div TargetRate

\* what the members and the caller's locals keep over a step of read()
RestOfWasapi == <<progVars, teleVars, lockVars, engineVars, envVars, hilbertVars,
                  workerVars, pipeVars, procVars, ctlVars, readVars, histVars,
                  recHist, wr_failed>>

\* resample_into, lines 254-263: the loop over the packet's n frames from
\* position pos with room left in dst; with a whole-number ratio the position
\* is a whole number, frac is 0 and the sample written is src[idx].  The
\* result: the indices idx written, and the position the loop ends at
RECURSIVE Resampled(_, _, _)
Resampled(pos, n, room) ==
    IF room = 0 \/ pos + 1 >= n
    THEN [idx |-> <<>>, pos |-> pos]
    ELSE LET more == Resampled(pos + Ratio, n, room - 1)
         IN  [idx |-> <<pos>> \o more.idx, pos |-> more.pos]

\* lines 266-267: the position relative to the next packet, not below 0
Rebased(pos, n) == IF pos - n < 0 THEN 0 ELSE pos - n

\* lines 195-196: the silent packet's length at the target rate
TargetFrames(n) == (n * TargetRate) \div DeviceRate

\* lines 170-173: resample_buf_ is consumed from its back
Drained(buf, k) == [i \in 1..k |-> buf[Len(buf) - i + 1]]

\* WasapiCapture::open, lines 59-162, when every step succeeds: the clients
\* are held and started, resample_pos_ = 0 (line 156)
wasapi_open ==
    /\ rpc = "idle" /\ ~capture_
    /\ capture_' = TRUE
    /\ resample_pos_' = 0
    /\ captured' = 0 /\ dropped' = 0
    /\ UNCHANGED <<resample_buf_, rpc, r_frames, r_filled, r_buffer, r_ret>>
    /\ UNCHANGED RestOfWasapi

\* WasapiCapture::close, lines 214-220
wasapi_close ==
    /\ rpc = "idle"
    /\ capture_' = FALSE
    /\ resample_buf_' = <<>>
    /\ resample_pos_' = 0
    /\ UNCHANGED <<rpc, r_frames, r_filled, r_buffer, r_ret, captured, dropped>>
    /\ UNCHANGED RestOfWasapi

\* read(buffer, frames), lines 164-167
read_begin ==
    /\ rpc = "idle"
    /\ \E frames \in 0..MaxRead :
         /\ r_frames' = frames
         /\ r_filled' = 0
         /\ r_buffer' = <<>>
         /\ IF capture_
            THEN /\ rpc' = "loop"
                 /\ UNCHANGED r_ret
            ELSE /\ rpc' = "idle"
                 /\ r_ret' = -1
    /\ UNCHANGED <<capture_, resample_buf_, resample_pos_, captured, dropped>>
    /\ UNCHANGED RestOfWasapi

\* lines 168-174 and 211: the loop condition, the buffered samples first,
\* return 0 once filled reaches frames
read_loop ==
    /\ rpc = "loop"
    /\ LET k == IF r_filled < r_frames
                THEN Min(r_frames - r_filled, Len(resample_buf_))
                ELSE 0
       IN  /\ r_buffer' = r_buffer \o Drained(resample_buf_, k)
           /\ resample_buf_' = SubSeq(resample_buf_, 1, Len(resample_buf_) - k)
           /\ r_filled' = r_filled + k
           /\ IF r_filled + k >= r_frames
              THEN /\ rpc' = "idle"
                   /\ r_ret' = 0
              ELSE /\ rpc' = "packet"
                   /\ UNCHANGED r_ret
    /\ UNCHANGED <<capture_, resample_pos_, r_frames, captured, dropped>>
    /\ UNCHANGED RestOfWasapi

\* lines 178-179 and 189-190: GetNextPacketSize or GetBuffer failed
read_fail ==
    /\ rpc = "packet"
    /\ rpc' = "idle"
    /\ r_ret' = -1
    /\ UNCHANGED <<capture_, resample_buf_, resample_pos_, r_frames, r_filled,
                   r_buffer, captured, dropped>>
    /\ UNCHANGED RestOfWasapi

\* lines 181-184: no packet yet, Sleep(1) and continue
read_sleep ==
    /\ rpc = "packet"
    /\ rpc' = "loop"
    /\ UNCHANGED <<capture_, resample_buf_, resample_pos_, r_frames, r_filled,
                   r_buffer, r_ret, captured, dropped>>
    /\ UNCHANGED RestOfWasapi

\* lines 186-198 and 209: a packet of n frames flagged silent; zeros are
\* written while there is room
read_silent ==
    /\ rpc = "packet"
    /\ \E n \in 1..MaxPacket :
         LET wrote == Min(TargetFrames(n), r_frames - r_filled)
         IN  /\ captured + n <= MaxCaptured
             /\ r_buffer' = r_buffer \o Fill(wrote, 0)
             /\ r_filled' = r_filled + wrote
             /\ captured' = captured + n
    /\ rpc' = "loop"
    /\ UNCHANGED <<capture_, resample_buf_, resample_pos_, r_frames, r_ret,
                   dropped>>
    /\ UNCHANGED RestOfWasapi

\* lines 186-191 and 199-209: a packet of n frames of audio through
\* extract_mono_float and resample_into; a sample is told by the number of
\* its device frame since open().  Nothing is added to resample_buf_
read_audio ==
    /\ rpc = "packet"
    /\ \E n \in 1..MaxPacket :
         LET r   == Resampled(resample_pos_, n, r_frames - r_filled)
             all == Resampled(resample_pos_, n, n)
         IN  /\ captured + n <= MaxCaptured
             /\ r_buffer' = r_buffer \o [i \in 1..Len(r.idx) |->
                                           captured + r.idx[i] + 1]
             /\ r_filled' = r_filled + Len(r.idx)
             /\ resample_pos_' = Rebased(r.pos, n)
             /\ captured' = captured + n
             /\ dropped' = dropped + (Len(all.idx) - Len(r.idx))
    /\ rpc' = "loop"
    /\ UNCHANGED <<capture_, resample_buf_, r_frames, r_ret>>
    /\ UNCHANGED RestOfWasapi

\* ---- specifications -------------------------------------------------------

Next ==
    \/ Call
    \/ stop_begin
    \/ stop_join
    \/ stop
    \/ close
    \/ open
    \/ open_file
    \/ start
    \/ destructor
    \/ w_begin
    \/ w_top
    \/ w_nin
    \/ w_acc
    \/ w_read_file
    \/ w_read_live
    \/ w_chk
    \/ w_proc
    \/ w_rx
    \/ w_warmup
    \/ w_synth
    \/ w_write

Spec == Init /\ [][Next]_vars

\* w_rx and open with the modem asking for one sample at every call
rx_one ==
    /\ w_rx
    /\ m_nin' = 1

open_one ==
    /\ open
    /\ m_nin' = 1

\* the lifecycle next to the recording operations, the modem asking for one
\* sample at every call and returning no frame
rx_idle ==
    /\ w_rx
    /\ m_nin' = 1 /\ n_frames' = 0

open_file_one ==
    /\ open_file
    /\ m_nin' = 1

CallRecording == CallOf((LifecycleOps \ {"destroy"}) \cup RecordingOps)

NextRecording ==
    \/ CallRecording
    \/ stop_begin
    \/ stop_join
    \/ stop
    \/ close
    \/ open_one
    \/ open_file_one
    \/ start
    \/ start_recording
    \/ stop_recording_store
    \/ stop_recording
    \/ w_begin
    \/ w_top
    \/ w_nin
    \/ w_acc
    \/ w_read_file
    \/ w_read_live
    \/ w_chk
    \/ w_proc
    \/ rx_idle

SpecRecording == Init /\ [][NextRecording]_vars

\* the worker's tee, gain and spectrum publish step by step over a source that
\* carries signal, next to the control thread's gain, recording and
\* get_spectrum calls
CallPipe ==
    CallOf({"open", "start", "stop", "set_input_gain", "start_recording",
            "stop_recording", "get_spectrum"})

NextPipe ==
    \/ CallPipe
    \/ stop_begin
    \/ stop_join
    \/ stop
    \/ open_one
    \/ start
    \/ set_input_gain
    \/ start_recording
    \/ stop_recording_store
    \/ stop_recording
    \/ get_spectrum_lock
    \/ get_spectrum_copy
    \/ get_spectrum
    \/ w_begin
    \/ w_top
    \/ w_nin
    \/ w_acc
    \/ w_read_live
    \/ w_chk
    \/ p_tee
    \/ p_tee_lock
    \/ p_tee_check
    \/ p_tee_write
    \/ p_gain
    \/ p_pub_lock
    \/ p_pub_copy
    \/ p_pub_unlock
    \/ p_level
    \/ rx_idle

SpecPipe == InitLoud /\ [][NextPipe]_vars

\* every operation of the control thread next to the worker's loop taken lock
\* by lock, over a silent source, with both threads scheduled: a thread that
\* can take a step eventually takes it; the worker's calls into the source
\* and the modem return, and a lock that stays free is granted to the thread
\* that waits for it
CallLocks == CallOf({"open", "close", "start", "stop", "start_recording",
                     "stop_recording", "get_spectrum"})

ControlStepLocks ==
    \/ stop_begin
    \/ stop_join
    \/ stop
    \/ close
    \/ open_one
    \/ start
    \/ start_recording
    \/ stop_recording_store
    \/ stop_recording
    \/ get_spectrum_lock
    \/ get_spectrum_copy
    \/ get_spectrum

WorkerStepLocks ==
    \/ w_begin
    \/ w_top
    \/ w_nin
    \/ w_acc
    \/ w_read_live
    \/ w_chk
    \/ p_tee
    \/ p_tee_lock
    \/ p_tee_check
    \/ p_tee_write
    \/ p_gain
    \/ p_pub_lock
    \/ p_pub_copy
    \/ p_pub_unlock
    \/ p_level
    \/ rx_idle

NextLocks ==
    \/ CallLocks
    \/ ControlStepLocks
    \/ WorkerStepLocks

SpecLocks ==
    Init /\ [][NextLocks]_vars
         /\ WF_vars(ControlStepLocks) /\ WF_vars(WorkerStepLocks)

\* the gain stage step by step over a source that carries signal, the modem
\* asking for any count and returning no frame, next to set_input_gain
rx_frameless ==
    /\ w_rx
    /\ n_frames' = 0

CallGain == CallOf({"open", "start", "stop", "set_input_gain"})

NextGain ==
    \/ CallGain
    \/ stop_begin
    \/ stop_join
    \/ stop
    \/ open
    \/ start
    \/ set_input_gain
    \/ w_begin
    \/ w_top
    \/ w_nin
    \/ w_acc
    \/ w_read_live
    \/ w_chk
    \/ p_tee
    \/ p_gain
    \/ p_pub_lock
    \/ p_pub_copy
    \/ p_pub_unlock
    \/ p_level
    \/ rx_frameless

SpecGain == InitLoud /\ [][NextGain]_vars

\* runs over a preloaded file, started, stopped and started again, the modem
\* asking for any count and returning no frame
CallFileRun == CallOf({"open_file", "start", "stop"})

NextFileRun ==
    \/ CallFileRun
    \/ stop_begin
    \/ stop_join
    \/ stop
    \/ open_file
    \/ start
    \/ w_begin
    \/ w_top
    \/ w_nin
    \/ w_acc
    \/ w_read_file
    \/ w_chk
    \/ w_proc
    \/ rx_frameless

SpecFileRun == Init /\ [][NextFileRun]_vars

\* the telemetry over a source that carries signal, the modem asking for one
\* sample at every call: live mode, set_input_gain and start_recording
CallTelemetry ==
    CallOf({"open", "close", "start", "stop", "set_input_gain", "start_recording"})

NextTelemetry ==
    \/ CallTelemetry
    \/ stop_begin
    \/ stop_join
    \/ stop
    \/ close
    \/ open_one
    \/ start
    \/ set_input_gain
    \/ start_recording
    \/ w_begin
    \/ w_top
    \/ w_nin
    \/ w_acc
    \/ w_read_live
    \/ w_chk
    \/ w_proc
    \/ rx_one
    \/ w_warmup
    \/ w_synth
    \/ w_write

SpecTelemetry == InitLoud /\ [][NextTelemetry]_vars

\* the lifecycle with the worker thread scheduled: no step of processing_loop
\* waits for another thread, so a worker that can step eventually does
WorkerStep ==
    \/ w_begin
    \/ w_top
    \/ w_nin
    \/ w_acc
    \/ w_read_file
    \/ w_read_live
    \/ w_chk
    \/ w_proc
    \/ w_rx
    \/ w_warmup
    \/ w_synth
    \/ w_write

SpecFair == Init /\ [][Next]_vars /\ WF_vars(WorkerStep)

\* a live session started and stopped, with the worker and the control
\* thread's stop() scheduled: every call the worker makes returns, and join
\* returns once the worker has ended
CallStop == CallOf({"open", "start", "stop"})

WorkerStepLive ==
    \/ w_begin
    \/ w_top
    \/ w_nin
    \/ w_acc
    \/ w_read_live
    \/ w_chk
    \/ w_proc
    \/ rx_one
    \/ w_warmup
    \/ w_synth
    \/ w_write

StopStep ==
    \/ stop_begin
    \/ stop_join
    \/ stop

NextStop ==
    \/ CallStop
    \/ open_one
    \/ start
    \/ StopStep
    \/ WorkerStepLive

SpecStop ==
    Init /\ [][NextStop]_vars /\ WF_vars(WorkerStepLive) /\ WF_vars(StopStep)

\* a live session whose runs are followed for MaxIterLong iterations: long
\* enough for the vocoder to be primed, the modem to lose sync and the
\* vocoder to be primed again within one run
NextPrime ==
    \/ CallStop
    \/ open_one
    \/ start
    \/ stop_begin
    \/ stop_join
    \/ stop
    \/ w_begin
    \/ w_top_long
    \/ w_nin
    \/ w_acc
    \/ w_read_live
    \/ w_chk
    \/ w_proc
    \/ rx_one
    \/ w_warmup
    \/ w_synth
    \/ w_write

SpecPrime == Init /\ [][NextPrime]_vars

\* the capture device of the Windows build alone: open, close and read
NextWasapi ==
    \/ wasapi_open
    \/ wasapi_close
    \/ read_begin
    \/ read_loop
    \/ read_fail
    \/ read_sleep
    \/ read_silent
    \/ read_audio

SpecWasapi == Init /\ [][NextWasapi]_vars

\* the analytic signal generator alone: reset, then calls of any lengths
NextHilbert ==
    \/ hilbert_process
    \/ hilbert_reset

SpecHilbert == Init /\ [][NextHilbert]_vars

\* the lifecycle with playback writes that fail
NextIO ==
    \/ Next
    \/ w_write_fail

SpecIO == Init /\ [][NextIO]_vars

\* ---- properties -----------------------------------------------------------

Released ==
    /\ ~pa_in_ /\ ~pa_out_ /\ ~rade_ /\ ~fargan_
    /\ file_audio_8k_ = <<>> /\ ~file_mode_

FramesWritten == {i \in DOMAIN sink : sink[i] > 0}

\* C1: after stop() has returned, the worker thread has exited and has been
\* joined, also when the worker cleared running_ itself before stop() was
\* called.
C1_StopJoinsWorker ==
    (ctl = "idle" /\ ret = "stop") => (~thread_ /\ workers = 0)

\* C2: when open() or open_file() has returned false, no collaborator is
\* held, the preloaded file buffer is empty and file mode is off.
C2_FailedOpenLeavesClosed ==
    (ctl = "idle" /\ ret \in {"open", "open_file"} /\ ~openOk) => Released

\* C3: counting the feature frames delivered since the vocoder entered
\* Unprimed: fewer than five give no priming call and no synthesis call, the
\* fifth gives exactly one priming call and no synthesis call, and from the
\* sixth on each frame gives exactly one synthesis call.
C3_WarmUpSchedule ==
    /\ framesSince < 5 =>
         contSince = 0 /\ synthSince = 0 /\ ~fargan_ready_
    /\ framesSince >= 5 =>
         contSince = 1 /\ synthSince = framesSince - 5 /\ fargan_ready_

C3_Witness ==
    framesSince = 6 /\ synthSince = 1 /\ contSince = 1

C5_NoStaleSynthesis ==
    [][(synthSince' = synthSince + 1) => ~lossSincePrime]_vars

\* C6: input is accumulated only against the required count the modem has
\* now, and the decode call is fed exactly that many fresh analytic samples.
C6_ExactInputCount ==
    /\ [](wpc = "rx" => (nin = m_nin /\ Len(rx_buf) = m_nin))
    /\ [][(Len(acc_8k') > Len(acc_8k)) => (nin = m_nin /\ Len(acc_8k) < m_nin)]_vars

\* a second iteration whose required count differs from the first one's
C6_Witness ==
    wpc = "rx" /\ iter = 2 /\ Len(handed) # 2 * nin /\ Len(rx_buf) = nin

\* C7: within a run, the samples handed to hilbert_process are, in order and
\* without gap or repetition, the first samples the source delivered, and
\* the synthesized frames in the sink appear in decode order.
C7_SingleOrder ==
    /\ \A i \in DOMAIN handed : handed[i] = run_base + i
    /\ Len(handed) <= delivered
    /\ \A i, j \in FramesWritten : i < j => sink[i] < sink[j]

C7_Witness ==
    /\ iter = 2 /\ wpc = "top"
    /\ Len(handed) >= 2 /\ Len(acc_8k) > 0
    /\ Cardinality(FramesWritten) >= 2

\* C8: at most one worker thread is alive, and a worker is only ever spawned
\* into a thread_ that holds no unjoined worker.
C8_OneWorker ==
    /\ [](workers <= 1)
    /\ [][(workers' > workers) => ~thread_]_vars

\* C9: start() spawns a worker exactly when the last open succeeded, nothing
\* was closed since and running_ is false; otherwise it changes nothing.
C9_StartGuard ==
    [][(ctl = "body" /\ op = "start" /\ ctl' = "idle")
         => IF openOk /\ ~running_
            THEN running_' /\ workers' = workers + 1
            ELSE UNCHANGED <<progVars, engineVars, workerVars, procVars,
                             histVars>>]_vars

C9_Witness ==
    ctl = "idle" /\ ret = "start" /\ wpc = "begin" /\ running_ /\ workers = 1

\* C10: when close() has returned the pipeline is not running and every
\* collaborator is released, and the worker is never at a step that uses
\* the modem, the vocoder, the source or the sink while that one is released.
C10_CloseReleases ==
    /\ (ctl = "idle" /\ ret = "close") => (~running_ /\ Released)
    /\ wpc \in {"begin", "nin", "rx"} => rade_
    /\ wpc \in {"rx", "frames"} => fargan_
    /\ wpc \in {"frames", "write"} => pa_out_
    /\ wpc = "read" => (pa_in_ \/ (file_mode_ /\ file_audio_8k_ # <<>>))

\* close() returned after a run that decoded frames, the worker joined
C10_Witness ==
    ctl = "idle" /\ ret = "close" /\ wpc = "none" /\ framesSince > 0 /\ ~thread_

\* the telemetry scalars close() resets hold their defaults
TelemetryDefaults ==
    /\ ~synced_ /\ snr_dB_ = 0 /\ freq_offset_ = 0
    /\ input_level_ = 0 /\ output_level_ = LevelZero
    /\ ~recording_

\* C11 (as stated): after close() has returned the sync flag is false, SNR,
\* frequency offset, input level and output level are 0, the recording flag
\* is false and the gain is unity.
C11_CloseAllDefaults ==
    (ctl = "idle" /\ ret = "close") => (TelemetryDefaults /\ input_gain_ = UNITY_GAIN)

\* C11 (amended): after close() has returned the sync flag is false, SNR,
\* frequency offset, input level and output level are 0 and the recording
\* flag is false; the gain is the one it was when close() was called.
C11_CloseResetsTelemetry ==
    /\ []((ctl = "idle" /\ ret = "close") => TelemetryDefaults)
    /\ [][(op = "close") => (input_gain_' = input_gain_)]_vars

\* close() returned with a gain that is not unity, after frames were
\* synthesized and the worker ended on its own: stop() returned without the
\* join and its reset of the levels
C11_Witness ==
    /\ ctl = "idle" /\ ret = "close"
    /\ thread_ /\ wpc = "exited"
    /\ framesSince > WARMUP_FRAMES
    /\ input_gain_ # UNITY_GAIN
    /\ TelemetryDefaults

\* C12: in file mode (the modem asks for at least one sample at every call)
\* the worker is never stuck: as long as it has not left processing_loop it
\* has a step to take, up to the normal end of its run.
C12_WorkerCanStep ==
    (file_mode_ /\ wpc \notin {"none", "exited"}) => ENABLED WorkerStep

\* what does hold: every started worker of a file-mode run leaves
\* processing_loop, unless std::terminate ends the process first
FileRunEndsOrTerminates ==
    (file_mode_ /\ wpc = "begin") ~> (wpc = "exited" \/ terminated)

\* C13: once a playback write has failed in a run, running_ is false and the
\* worker makes no further rade_rx call and no further playback write in
\* that run.
C13_WriteFailureEndsRun ==
    /\ [](wr_failed => ~running_)
    /\ [][wr_failed => ~(wpc \in {"rx", "write"} /\ wpc' # wpc)]_vars

\* the bins of o come from one snapshot: the initial zeros, the floor of a
\* silent window, or one window's value in every bin
OneSnapshot(o) ==
    \/ \A i \in DOMAIN o : o[i] = 0
    \/ \A i \in DOMAIN o : o[i] = FLOOR_DB
    \/ /\ \A i \in DOMAIN o : o[i] > 0
       /\ \A i, j \in DOMAIN o : o[i] - i = o[j] - j

\* C14: the bins get_spectrum has copied so far belong to one snapshot, and
\* when it has returned it has copied min(n, SPECTRUM_BINS) of them; outside
\* the worker's publish the array holds one snapshot.
C14_WholeSnapshot ==
    /\ OneSnapshot(out)
    /\ (ctl = "idle" /\ ret = "get_spectrum") => Len(out) = BinsCopied(gs_n)
    /\ (spectrum_mutex_ # "worker") => OneSnapshot(spectrum_mag_)

\* get_spectrum returned a whole earlier snapshot and the worker is now half
\* way through publishing another one
C14_Witness ==
    /\ ctl = "idle" /\ ret = "get_spectrum"
    /\ Len(out) = SPECTRUM_BINS /\ out[1] > 0
    /\ wpc = "pub_copy" /\ pub_i = 1
    /\ spectrum_mag_[1] # out[1]
    /\ ~OneSnapshot(spectrum_mag_)

\* C15: the worker holds the spectrum lock only in the copy of the publish
\* step and the recording lock only in the file test and write of the tee, so never
\* both and never in a read, decode, synthesis or playback step; the reader
\* holds the spectrum lock only in its copy; a get_spectrum call that finds
\* the lock taken finds the worker in its copy.
C15_LockScope ==
    /\ (spectrum_mutex_ = "worker") => (wpc = "pub_copy")
    /\ (rec_mutex_ = "worker") => (wpc \in {"tee_check", "tee_write"})
    /\ ~(spectrum_mutex_ = "worker" /\ rec_mutex_ = "worker")
    /\ (spectrum_mutex_ = "reader") => (ctl = "gs_copy")
    /\ (ctl = "body" /\ op = "get_spectrum" /\ ~Granted(spectrum_mutex_))
          => (wpc = "pub_copy" /\ rec_mutex_ = "free")

\* a get_spectrum call waits for the worker's copy in an iteration that wrote
\* to the recording file
C15_Witness ==
    /\ ctl = "body" /\ op = "get_spectrum"
    /\ spectrum_mutex_ = "worker" /\ pub_i = 1
    /\ recording_ /\ rec_file_ /\ teed /\ rec_bytes > 0

\* the positions of the samples in the recording file
RecPositions == [i \in DOMAIN rec_data |-> rec_data[i][1]]

\* the worker is between the tee and the erase of an iteration
MidIteration == wpc \in {"gain", "pub_lock", "pub_copy", "level"}

C17_RecordedPreGain ==
    \A i \in DOMAIN rec_data : rec_data[i][2] = I16(SourceAmp)

\* the second sample of a run is recorded after it waited in the buffer
\* through an iteration that applied a gain of 2
C17_Witness ==
    /\ wpc = "gain" /\ iter = 2 /\ teed
    /\ Len(rec_data) = 2
    /\ input_gain_ = 2 /\ input_level_ = 2

\* C18 (as stated): no step of open, open_file, start, stop or close changes
\* the recording flag or the open recording file.
C18_LifecycleKeepsRecording ==
    [][(op \in {"open", "open_file", "start", "stop", "close"})
         => UNCHANGED <<recording_, rec_file_>>]_vars

\* C18 (amended): no step of start or stop changes the recording flag or the
\* open recording file; when close, open or open_file has returned the flag
\* is false and no recording file is open.
C18_StartStopKeepRecording ==
    /\ [][(op \in {"start", "stop"}) => UNCHANGED <<recording_, rec_file_>>]_vars
    /\ []((ctl = "idle" /\ ret \in {"close", "open", "open_file"})
            => (~recording_ /\ ~rec_file_))

\* stop() returned, after a run, with the recording still on
C18_Witness ==
    /\ ctl = "idle" /\ ret = "stop" /\ wpc = "none"
    /\ recording_ /\ rec_file_ /\ openOk /\ input_level_ = 0
    /\ spectrum_mag_ # ZeroSpectrum

\* C19: an iteration that synthesizes no frame leaves the output level at
\* the decayed previous level, an iteration that synthesizes n > 0 frames at
\* the RMS over its n frames.
C19_OutputLevelPerIteration ==
    [][(wpc \in {"rx", "frames", "write"} /\ wpc' = "top")
         => output_level_' = IF rms_n' = 0
                             THEN Decay(output_level_)
                             ELSE [rms |-> OutputRms(rms_n'), decays |-> 0]]_vars

\* what does hold: the same for the iterations in which rade_rx returned no
\* frame or a frame was synthesized
OutputLevelOutsideWarmup ==
    [][(wpc \in {"rx", "frames", "write"} /\ wpc' = "top"
          /\ (n_frames' = 0 \/ rms_n' > 0))
         => output_level_' = IF rms_n' = 0
                             THEN Decay(output_level_)
                             ELSE [rms |-> OutputRms(rms_n'), decays |-> 0]]_vars

\* C20: in every worker run, every synthesized frame in the sink comes after
\* a silence prefill written in that run.
C20_PrefillBeforeAudio ==
    \A i \in FramesWritten : \E j \in 1..(i - 1) : sink[j] = 0

\* the worker starts a blocking call on the capture stream or the playback
\* sink in this step
BlockingCallBegins ==
    \/ Len(sink') > Len(sink)
    \/ ~file_mode_ /\ delivered' > delivered

\* the positions of the capture read and of the frame write are entered only
\* through a check that found the running flag set (lines 479 and 657)
ReadAndWriteAreGuarded ==
    [][(wpc' \in {"read", "write"} /\ wpc' # wpc) => running_]_vars

\* C21: every capture read and every playback write, of a synthesized frame
\* or of the silence prefill, begins with the running flag set or directly
\* after a check that found it set.
C21_CancelCheckedBeforeIO ==
    [][BlockingCallBegins => (running_ \/ wpc \in {"read", "write"})]_vars

\* how far the worker is through its iteration: the positions of the loop
\* body in the order of the code, the frame loop by the frame it is at
StopRank(p) ==
    CASE p = "begin" -> 0
      [] p = "nin" -> 1
      [] p = "read" -> 2
      [] p = "acc" -> 3
      [] p = "chk" -> 4
      [] p = "proc" -> 5
      [] p = "rx" -> 6
      [] p \in {"frames", "write"} -> 7
      [] p = "top" -> 8
      [] OTHER -> 9

StopMeasure(p, i) ==
    StopRank(p) * (2 * MaxFramesPerRx + 4) + 2 * i + (IF p = "write" THEN 1 ELSE 0)

\* C22: a stop() call on a running session returns; and while stop() waits in
\* join after clearing the flag, every step of the worker takes it further
\* through the iteration in progress (so through at most one decode call)
\* and never back to the start of another one.
C22_StopReturns ==
    /\ (ctl = "stop_entry" /\ op = "stop" /\ running_)
          ~> (ctl = "idle" /\ ret = "stop")
    /\ [][(ctl = "stop_join" /\ ctl' = "stop_join" /\ <<wpc, fi>>' # <<wpc, fi>>)
           => StopMeasure(wpc', fi') > StopMeasure(wpc, fi)]_vars

\* stop() waits in join while the worker, past its last check of the flag,
\* goes through the second frame of its iteration
C22_Witness ==
    /\ ctl = "stop_join" /\ op = "stop" /\ ~running_
    /\ wpc = "frames" /\ fi = 1 /\ n_frames = 2 /\ fargan_ready_

\* C23: since the reset the generator has produced one output per input
\* sample, and the real part of output i (counted from 0) is input i - DELAY
\* for i >= DELAY and zero before, whatever the split into calls.
C23_RealPartDelayed ==
    /\ Len(h_out) = Len(h_in)
    /\ \A i \in DOMAIN h_out :
         h_out[i][1] = IF i - 1 >= HILBERT_DELAY THEN h_in[i - HILBERT_DELAY] ELSE 0

\* more samples than the rings hold went through in several calls, and the
\* last output carries a nonzero input sample
C23_Witness ==
    /\ Len(h_in) > HILBERT_NTAPS /\ h_calls >= 2 /\ h_calls < Len(h_in)
    /\ h_out[Len(h_out)][1] # 0
    /\ h_in[Len(h_in)] # h_out[Len(h_out)][1]

\* C24: if every sample fed since the reset is zero, every output is zero in
\* both parts.
C24_ZeroInZeroOut ==
    (\A i \in DOMAIN h_in : h_in[i] = 0)
      => (\A i \in DOMAIN h_out : h_out[i] = <<0, 0>>)

\* a zero signal longer than the rings went through in several calls
C24_Witness ==
    /\ Len(h_in) > HILBERT_NTAPS /\ h_calls >= 2
    /\ \A i \in DOMAIN h_in : h_in[i] = 0
    /\ Len(h_out) = Len(h_in)
    /\ hilbert_pos_ = Len(h_in) % HILBERT_NTAPS

\* C25: the step that goes through rade_rx leaves the published sync flag
\* equal to the modem's sync state after the call; it stores the modem's SNR
\* and frequency-offset estimates if that state is synchronized and leaves
\* both as they were if it is not.
C25_SyncTelemetry ==
    [][(wpc = "rx" /\ wpc' # "rx")
         => /\ synced_' = m_sync'
            /\ IF m_sync'
               THEN snr_dB_' = Estimate /\ freq_offset_' = Estimate
               ELSE UNCHANGED <<snr_dB_, freq_offset_>>]_vars

\* after a synchronized iteration and an unsynchronized one the sync flag is
\* false and the estimates of the first are still published
C25_Witness ==
    /\ wpc = "top" /\ iter = 2 /\ running_
    /\ ~synced_ /\ ~m_sync /\ ~was_synced
    /\ snr_dB_ = Estimate /\ freq_offset_ = Estimate /\ snr_dB_ # 0

\* C26: an iteration whose buffer holds fewer than FFT_SIZE samples leaves
\* the snapshot as it was; the worker changes the snapshot only in an
\* iteration with at least FFT_SIZE samples (open() clears it); and with or
\* without a snapshot the iteration hands the first nin samples of the
\* buffer, and publishes their level, in the same way.
C26_SnapshotNeedsWindow ==
    /\ [][(wpc = "proc" /\ wpc' = "rx")
           => /\ (Len(acc_8k) < FFT_SIZE) => (spectrum_mag_' = spectrum_mag_)
              /\ rx_buf' = SubSeq(acc_8k, 1, nin)
              /\ input_level_' = InputLevel(Gained(acc_amp, nin, input_gain_), nin)]_vars
    /\ [][(spectrum_mag_' # spectrum_mag_)
           => \/ wpc = "proc" /\ Len(acc_8k) >= FFT_SIZE
              \/ ctl = "body" /\ op = "open"]_vars

\* the second iteration of a run found one sample in the buffer and left
\* the snapshot of the first in place
C26_Witness ==
    /\ wpc = "rx" /\ iter = 2
    /\ Len(acc_8k) + nin < FFT_SIZE
    /\ Len(handed) = 2
    /\ spectrum_mag_[1] > 0

\* C27: the snapshot an iteration publishes is the snapshot of the window
\* with the iteration's gain applied to every sample in it.
C27_SnapshotAfterGain ==
    [][(wpc = "proc" /\ wpc' = "rx" /\ Len(acc_8k) >= FFT_SIZE)
         => spectrum_mag_' =
              Snapshot(acc_8k, [i \in DOMAIN acc_amp |-> acc_amp[i] * input_gain_])]_vars

\* C28: when get_spectrum(out, n) returns, out holds the first min(n,
\* SPECTRUM_BINS) bins of the snapshot, in bin order, and nothing more.
C28_CopiesMinBins ==
    [][(ctl = "gs_copy" /\ ctl' = "idle")
         => out = SubSeq(spectrum_mag_, 1, Min(gs_n, SPECTRUM_BINS))]_vars

\* get_spectrum was asked for more bins than the snapshot has and returned
\* all the bins of a published snapshot
C28_Witness ==
    /\ ctl = "idle" /\ ret = "get_spectrum"
    /\ gs_n > SPECTRUM_BINS /\ Len(out) = SPECTRUM_BINS
    /\ out[SPECTRUM_BINS] > 0 /\ out = spectrum_mag_
    /\ wpc = "level"

\* C30: a tee write happens only in a step the worker takes holding the
\* recording lock with the file open; the file is closed only while the
\* worker does not hold the lock; and stop_recording() has cleared the flag
\* when it asks for the lock.
C30_TeeWriteUnderLock ==
    /\ [][(Len(rec_data') > Len(rec_data)) => (rec_mutex_ = "worker" /\ rec_file_)]_vars
    /\ [][(rec_file_ /\ ~rec_file_') => (rec_mutex_ # "worker")]_vars
    /\ [](ctl = "rec_close" => ~recording_)

\* the worker read the flag as true, stop_recording() closed the file, and
\* the worker, now holding the lock, is about to find no file
C30_Witness ==
    /\ wpc = "tee_check" /\ rec_mutex_ = "worker"
    /\ ~rec_file_ /\ ~recording_
    /\ ctl = "idle" /\ ret = "stop_recording"

\* C29: within one worker run the silence prefill is written to the playback
\* sink at most once: a second entry into Primed, after a sync loss, writes
\* no prefill (sink holds what the sink received in the current run, 0 for a
\* prefill)
Prefills == {i \in DOMAIN sink : sink[i] = 0}

C29_PrefillOncePerRun == Cardinality(Prefills) <= 1

\* C31: in WasapiCapture::read no resampled sample of a captured packet is
\* lost: what does not fit in the caller's buffer is kept in resample_buf_
\* for the next read; and a read that returned 0 filled exactly the frames
\* asked for
ReadFillsRequest ==
    (rpc = "idle" /\ r_ret = 0 /\ capture_) =>
        (r_filled = r_frames /\ Len(r_buffer) = r_frames)

C31_NoCapturedAudioDropped ==
    /\ dropped = 0
    /\ ReadFillsRequest

\* C32: after stop() has returned, is_synced() is false and the input and the
\* output level read 0, whether stop() found the worker running or ended
C32_StopClearsStatus ==
    (ctl = "idle" /\ ret = "stop" /\ ~terminated) =>
        (~synced_ /\ input_level_ = 0 /\ output_level_.rms = 0)

\* C33: the control thread's operations and the worker loop do not deadlock.
\* The worker never holds both locks and asks for a lock only while it holds
\* none; the control thread holds no lock while it waits in join;
\* and every operation the control thread has begun returns (or the process
\* has ended in std::terminate)
LocksNeverNested ==
    /\ ~(rec_mutex_ = "worker" /\ spectrum_mutex_ = "worker")
    /\ (wpc = "tee_lock") => (spectrum_mutex_ # "worker" /\ rec_mutex_ # "worker")
    /\ (wpc = "pub_lock") => (spectrum_mutex_ # "worker" /\ rec_mutex_ # "worker")
    /\ (spectrum_mutex_ = "reader") => (ctl = "gs_copy")
    /\ (ctl \in {"stop_entry", "stop_join", "rec_close"}) =>
           (spectrum_mutex_ # "reader")

BeforeGain == {"top", "nin", "acc", "read", "chk", "proc", "gain"}

Unmultiplied(amps) == \A i \in DOMAIN amps : amps[i] = SourceAmp

OneGainOverBlock(amps, g) ==
    /\ Len(amps) >= nin
    /\ SubSeq(amps, 1, nin) = Fill(nin, SourceAmp * g)
    /\ Unmultiplied(SubSeq(amps, nin + 1, Len(amps)))

C34_GainAppliedOnce ==
    /\ []((wpc \in BeforeGain) => Unmultiplied(acc_amp))
    /\ [][(wpc = "gain" /\ wpc' # "gain")
            => OneGainOverBlock(acc_amp', input_gain_)]_vars
    /\ [][(handed' # handed /\ handed' # <<>>)
            => /\ \E g \in GainValues : OneGainOverBlock(acc_amp, g)
               /\ Unmultiplied(acc_amp')]_vars

\* an iteration handed over two samples, the first of them left over by the
\* iteration before, multiplied by a gain that set_input_gain has replaced
\* since
C34_Witness ==
    /\ wpc = "rx" /\ iter = 2 /\ rx_buf = <<2, 3>>
    /\ input_level_ = 2 * SourceAmp /\ input_gain_ = UNITY_GAIN
    /\ Len(acc_amp) = 1

\* C35: in every reachable state the warm-up counter lies in 0..5 and the
\* vocoder is ready exactly when the counter is 5; so the slot of the warm-up
\* buffer a frame is about to be stored in is one of 0..4
C35_WarmupCounterInRange ==
    /\ warmup_count_ \in 0..WARMUP_FRAMES
    /\ fargan_ready_ <=> (warmup_count_ = WARMUP_FRAMES)
    /\ (wpc = "frames" /\ ~fargan_ready_) => (warmup_count_ \in 0..(WARMUP_FRAMES - 1))

\* the first frame of a restarted run goes into the last slot: the four
\* frames before it were stored by the run before
C35_Witness ==
    /\ wpc = "frames" /\ ~fargan_ready_ /\ warmup_count_ = WARMUP_FRAMES - 1
    /\ iter = 1 /\ fi = 0

\* C36: the accumulation buffer is bounded.  Over the capture stream it holds
\* at most READ_FRAMES - 1 samples from the end of an iteration's block to
\* the next required count, and never more than the required count plus
\* READ_FRAMES - 1; over a file it is empty there and holds exactly the
\* required count when the block is processed; the processed block lies
\* within the buffer
BetweenBlocks == {"rx", "frames", "write", "top", "nin"}
Accumulating == {"acc", "read", "chk", "proc"}

C36_AccumulationBounded ==
    /\ (wpc \in BetweenBlocks /\ ~file_mode_) => Len(acc_8k) <= READ_FRAMES - 1
    /\ (wpc \in Accumulating) => Len(acc_8k) <= nin + READ_FRAMES - 1
    /\ (wpc \in BetweenBlocks /\ file_mode_) => acc_8k = <<>>
    /\ (wpc = "proc" /\ file_mode_) => Len(acc_8k) = nin
    /\ (wpc = "proc") => Len(acc_8k) >= nin

\* a block over the capture stream with the buffer at its bound
C36_Witness ==
    /\ wpc = "proc" /\ ~file_mode_ /\ nin = NinMax
    /\ Len(acc_8k) = nin + READ_FRAMES - 1

\* C37: the analytic signal generator is chunking-invariant: after any
\* sequence of calls since the reset, the outputs, the two rings and their
\* positions are those of one call over the whole stream fed so far; and both
\* positions stay within the rings
WholeStream ==
    HilbertProcess(CallState(FreshRing, 0, FreshRing, 0), h_in)

C37_ChunkingInvariant ==
    /\ h_out = WholeStream.out
    /\ hilbert_hist_ = WholeStream.st.hist /\ hilbert_pos_ = WholeStream.st.pos
    /\ delay_buf_ = WholeStream.st.delay /\ delay_pos_ = WholeStream.st.dpos
    /\ hilbert_pos_ \in 0..(HILBERT_NTAPS - 1)
    /\ delay_pos_ \in 0..(HILBERT_NTAPS - 1)

\* a stream longer than the rings, fed in three calls of different lengths
C37_Witness ==
    /\ h_calls = 3 /\ Len(h_in) = MaxStream /\ Len(h_out) = MaxStream
    /\ h_in[1] = 1 /\ h_in[MaxStream] = -1
    /\ hilbert_pos_ = MaxStream % HILBERT_NTAPS

\* the step at which a worker over a file finds the preloaded buffer
\* exhausted and clears the running flag (lines 483-487)
EndsByExhaustion == file_mode_ /\ wpc = "read" /\ wpc' = "chk"

\* C38 (as stated): when a run over a file ends by exhaustion, every preloaded
\* sample except a final tail has been fed to the modem exactly once and in
\* order, and the tail is shorter than the required count of the unfinished
\* iteration.
C38_AllButTailFed ==
    [][EndsByExhaustion
         => /\ handed \o acc_8k = file_audio_8k_
            /\ Len(acc_8k) < nin]_vars

\* C38 (amended): when a run over a file ends by exhaustion, the preloaded
\* samples from the position the run began at, except a final tail, have been
\* fed to the modem exactly once and in order, and the tail is shorter than
\* the required count of the unfinished iteration; the run begins at the
\* first sample if it is the first run after open_file.
C38_FedFromRunStart ==
    [][EndsByExhaustion
         => /\ handed \o acc_8k =
                 SubSeq(file_audio_8k_, run_base + 1, Len(file_audio_8k_))
            /\ Len(acc_8k) < nin
            /\ (run_base = 0 => handed \o acc_8k = file_audio_8k_)]_vars

\* a run from the first sample that ended by exhaustion with one sample fed
\* and a tail of one sample
C38_Witness ==
    /\ file_mode_ /\ wpc = "chk" /\ ~running_ /\ run_base = 0
    /\ file_pos_ = Len(file_audio_8k_)
    /\ handed = <<1>> /\ acc_8k = <<2>> /\ nin = 2

\* C39: is_recording() implies that a recording file is open, in every state;
\* start_recording on an open recording changes neither the flag nor the file
\* nor what the file holds, the step that returns from start_recording with no
\* file open leaves the flag false, and when stop_recording has returned the
\* flag is false and the file is closed
C39_RecordingImpliesFile ==
    /\ [](recording_ => rec_file_)
    /\ [][(op = "start_recording" /\ ctl = "body" /\ ctl' = "idle" /\ rec_file_)
            => UNCHANGED <<recording_, rec_file_, recHist>>]_vars
    /\ [][(op = "start_recording" /\ ctl = "body" /\ ctl' = "idle" /\ ~rec_file_')
            => ~recording_']_vars
    /\ []((ctl = "idle" /\ ret = "stop_recording")
            => (~recording_ /\ ~rec_file_))

\* start_recording has returned from a failed fopen while the worker runs:
\* no file, flag false
C39_Witness ==
    /\ ctl = "idle" /\ ret = "start_recording"
    /\ ~rec_file_ /\ ~recording_
    /\ running_ /\ wpc # "none"

====
